---------------------------- MODULE Spec2Model ----------------------------
(***************************************************************************)
(* Model of mcp-semantic-navigator/server.py: the file scan, the path      *)
(* heuristic clustering, the two presenters, the JSON-RPC request router   *)
(* and the line-by-line server loop.                                       *)
(*                                                                         *)
(* A Python str is a sequence of one-character strings, so that lower(),   *)
(* capitalize(), the `in` substring test, endswith() and Path(...).parts   *)
(* are computed on the characters.  A text made of "\n"-terminated lines   *)
(* is the sequence of its lines.                                           *)
(***************************************************************************)
EXTENDS Integers, Sequences, FiniteSets, TLC

VARIABLES
    tree,      \* the directory the scanned roots denote: its files, in rglob order
    request,   \* SpecCall: the decoded request handed to handle_request
    files,     \* the list simple_semantic_clustering is given (the last scan)
    clusters,  \* the ClusterMap it returned, keys in insertion order
    response,  \* what handle_request returned
    input,     \* Spec: the lines of standard input
    pos,       \* Spec: number of lines main has taken from standard input
    out,       \* Spec: the lines printed to standard output
    outLine,   \* Spec: for each printed line, the input line being handled
    escaped,   \* SpecCall: an exception left handle_request
    pc         \* position of main, or of the operation a specification applies

vars == <<tree, request, files, clusters, response, input, pos, out, outLine, escaped, pc>>

-----------------------------------------------------------------------------
(* Bounds of the model *)

\* longest file list given to simple_semantic_clustering in SpecCluster
MaxLen == 2
\* most files of the scanned directory in SpecCall
MaxFiles == 12
\* most input lines in Spec
MaxLines == 3

(* Constants of the program *)

\* content[:2000]
ContentPrefix == 2000

-----------------------------------------------------------------------------
(* Python str operations *)

UpperChars == <<"A","B","C","D","E","F","G","H","I","J","K","L","M","N","O","P","Q","R","S","T","U","V","W","X","Y","Z">>
LowerChars == <<"a","b","c","d","e","f","g","h","i","j","k","l","m","n","o","p","q","r","s","t","u","v","w","x","y","z">>

Range(s) == {s[i] : i \in DOMAIN s}

CharLower(c) ==
    IF \E i \in DOMAIN UpperChars : UpperChars[i] = c
    THEN LowerChars[CHOOSE i \in DOMAIN UpperChars : UpperChars[i] = c]
    ELSE c

CharUpper(c) ==
    IF \E i \in DOMAIN LowerChars : LowerChars[i] = c
    THEN UpperChars[CHOOSE i \in DOMAIN LowerChars : LowerChars[i] = c]
    ELSE c

\* str.lower()
Lower(s) == [i \in 1..Len(s) |-> CharLower(s[i])]

\* str.capitalize(): first character upper-cased, all the others lower-cased
Capitalize(s) == [i \in 1..Len(s) |-> IF i = 1 THEN CharUpper(s[i]) ELSE CharLower(s[i])]

\* sub in s
Contains(s, sub) ==
    \E i \in 0..(Len(s) - Len(sub)) : \A j \in 1..Len(sub) : s[i + j] = sub[j]

\* s.endswith(suf)
EndsWith(s, suf) ==
    /\ Len(suf) <= Len(s)
    /\ \A j \in 1..Len(suf) : s[Len(s) - Len(suf) + j] = suf[j]

\* s.startswith(pre)
StartsWith(s, pre) ==
    /\ Len(pre) <= Len(s)
    /\ \A j \in 1..Len(pre) : s[j] = pre[j]

RECURSIVE DigitsOf(_)
DigitsOf(n) ==
    IF n < 10 THEN <<<<"0","1","2","3","4","5","6","7","8","9">>[n + 1]>>
    ELSE Append(DigitsOf(n \div 10), <<"0","1","2","3","4","5","6","7","8","9">>[(n % 10) + 1])

\* str(n) of an int
IntStr(n) == IF n < 0 THEN <<"-">> \o DigitsOf(0 - n) ELSE DigitsOf(n)

RECURSIVE SplitSlash(_, _, _)
SplitSlash(s, cur, acc) ==
    IF s = <<>> THEN Append(acc, cur)
    ELSE IF Head(s) = "/" THEN SplitSlash(Tail(s), <<>>, Append(acc, cur))
    ELSE SplitSlash(Tail(s), Append(cur, Head(s)), acc)

\* Path(p).parts of a POSIX path: the components between slashes, empty ones
\* and "." dropped, ".." kept, and "/" first when the path is absolute
Parts(p) ==
    LET kept == SelectSeq(SplitSlash(p, <<>>, <<>>), LAMBDA c : c # <<>> /\ c # <<".">>)
    IN  IF p # <<>> /\ p[1] = "/" THEN <<<<"/">>>> \o kept ELSE kept

RECURSIVE JoinParts(_)
JoinParts(ps) ==
    IF ps = <<>> THEN <<>>
    ELSE IF Len(ps) = 1 THEN ps[1]
    ELSE IF ps[1] = <<"/">> THEN ps[1] \o JoinParts(Tail(ps))
    ELSE ps[1] \o <<"/">> \o JoinParts(Tail(ps))

\* str(Path) of the given parts ("." for the empty path)
PathStr(ps) == IF ps = <<>> THEN <<".">> ELSE JoinParts(ps)

Min(a, b) == IF a < b THEN a ELSE b

InList(x, list) == \E i \in DOMAIN list : list[i] = x

-----------------------------------------------------------------------------
(* simple_semantic_clustering *)

\* the if/elif chain: the label, given path.lower(), Path(path).parts and path
ClusterKeyOn(low, parts, path) ==
        IF Contains(low, <<"c","o","m","p","o","n","e","n","t">>) \/ InList(<<"c","o","m","p","o","n","e","n","t","s">>, parts)
            THEN <<"U","I"," ","C","o","m","p","o","n","e","n","t","s">>
        ELSE IF Contains(low, <<"h","o","o","k">>) \/ InList(<<"h","o","o","k","s">>, parts)
            THEN <<"R","e","a","c","t"," ","H","o","o","k","s">>
        ELSE IF Contains(low, <<"s","e","r","v","i","c","e">>) \/ InList(<<"s","e","r","v","i","c","e","s">>, parts)
            THEN <<"S","e","r","v","i","c","e","s"," ","&"," ","A","P","I","s">>
        ELSE IF Contains(low, <<"u","t","i","l">>) \/ InList(<<"u","t","i","l","s">>, parts) \/ Contains(low, <<"h","e","l","p","e","r">>)
            THEN <<"U","t","i","l","i","t","i","e","s"," ","&"," ","H","e","l","p","e","r","s">>
        ELSE IF Contains(low, <<"t","y","p","e">>) \/ InList(<<"t","y","p","e","s">>, parts) \/ Contains(low, <<"i","n","t","e","r","f","a","c","e">>)
            THEN <<"T","y","p","e"," ","D","e","f","i","n","i","t","i","o","n","s">>
        ELSE IF Contains(low, <<"t","e","s","t">>) \/ EndsWith(path, <<".","t","e","s","t",".","t","s">>) \/ EndsWith(path, <<".","t","e","s","t",".","t","s","x">>)
            THEN <<"T","e","s","t","s">>
        ELSE IF Contains(low, <<"c","o","n","f","i","g">>) \/ Contains(low, <<"s","e","t","u","p">>)
            THEN <<"C","o","n","f","i","g","u","r","a","t","i","o","n">>
        ELSE IF \E p \in {<<"a","u","t","h">>, <<"l","o","g","i","n">>, <<"s","e","s","s","i","o","n">>} : InList(p, parts)
            THEN <<"A","u","t","h","e","n","t","i","c","a","t","i","o","n">>
        ELSE IF \E p \in {<<"d","b">>, <<"d","a","t","a","b","a","s","e">>, <<"m","o","d","e","l">>, <<"m","o","d","e","l","s">>} : InList(p, parts)
            THEN <<"D","a","t","a","b","a","s","e"," ","&"," ","M","o","d","e","l","s">>
        ELSE IF \E p \in {<<"a","p","i">>, <<"r","o","u","t","e">>, <<"r","o","u","t","e","s">>, <<"e","n","d","p","o","i","n","t">>} : InList(p, parts)
            THEN <<"A","P","I"," ","R","o","u","t","e","s">>
        ELSE IF \E i \in DOMAIN parts : parts[i] \notin {<<".">>, <<".",".">>, <<"s","r","c">>}
            THEN Capitalize(parts[CHOOSE i \in DOMAIN parts :
                                    /\ parts[i] \notin {<<".">>, <<".",".">>, <<"s","r","c">>}
                                    /\ \A j \in 1..(i - 1) : parts[j] \in {<<".">>, <<".",".">>, <<"s","r","c">>}])
        ELSE <<"O","t","h","e","r">>

\* mutant: the components are taken from the lower-cased path
ClusterKeyLowered(path) == ClusterKeyOn(Lower(path), Parts(Lower(path)), path)

\* the label of one path
ClusterKey(path) == ClusterKeyOn(Lower(path), Parts(path), path)

\* mutant: the list of a known key is replaced instead of extended
AddToClusterOverwrite(cl, key, file_info) ==
    IF \E i \in DOMAIN cl : cl[i].name = key
    THEN [i \in DOMAIN cl |->
            IF cl[i].name = key THEN [name |-> key, files |-> <<file_info>>] ELSE cl[i]]
    ELSE Append(cl, [name |-> key, files |-> <<file_info>>])

\* clusters[cluster_key].append(file_info), the key created when it is new.
\* A dict is the sequence of its items in insertion order.
AddToCluster(cl, key, file_info) ==
    IF \E i \in DOMAIN cl : cl[i].name = key
    THEN [i \in DOMAIN cl |->
            IF cl[i].name = key
            THEN [name |-> key, files |-> Append(cl[i].files, file_info)]
            ELSE cl[i]]
    ELSE Append(cl, [name |-> key, files |-> <<file_info>>])

RECURSIVE ClusterLoop(_, _)
ClusterLoop(fs, cl) ==
    IF fs = <<>> THEN cl
    ELSE ClusterLoop(Tail(fs), AddToCluster(cl, ClusterKey(Head(fs).path), Head(fs)))

simple_semantic_clustering(fs) == ClusterLoop(fs, <<>>)

-----------------------------------------------------------------------------
(* SpecCluster: simple_semantic_clustering applied to a bounded file list *)

\* the dict scan_code_files builds for one file; content is the number of
\* characters kept of the file's text
FileRecord(path, full_path, size, ext) ==
    [path |-> path, full_path |-> full_path,
     content |-> IF size < ContentPrefix THEN size ELSE ContentPrefix,
     size |-> size, extension |-> ext]

ClusterPaths ==
    { <<"c","o","m","p","o","n","e","n","t","s","/","h","o","o","k","s","/","a",".","t","s">>, <<"h","o","o","k","s","/","s","e","r","v","i","c","e",".","t","s">>, <<"s","e","r","v","i","c","e","s","/","u","t","i","l",".","t","s">>,
      <<"u","t","i","l","s","/","t","y","p","e","s",".","t","s">>, <<"t","y","p","e","s","/","a",".","t","e","s","t",".","t","s">>, <<"t","e","s","t","/","c","o","n","f","i","g",".","p","y">>,
      <<"s","e","t","u","p","/","a","u","t","h","/","a",".","p","y">>, <<"a","u","t","h","/","d","b","/","a",".","p","y">>, <<"d","b","/","a","p","i","/","a",".","p","y">>, <<"a","p","i","/","a",".","p","y">>,
      <<"A","u","t","h","/","x",".","g","o">>, <<"A","P","I","/","b",".","p","y">>, <<"M","o","d","e","l","s","/","x",".","p","y">>, <<"a","/","c","o","m","p","o","n","e","n","t","F","a","c","t","o","r","y",".","t","s">>,
      <<"s","r","c","/","l","i","b","/","a",".","p","y">>, <<"s","r","c","/","x",".","t","s">>, <<"m","y","D","i","r","/","x",".","p","y">>, <<".",".","/","s","r","c","/","q",".","p","y">>,
      <<"/","a","b","s","/","x",".","p","y">>, <<".",".">>, <<>>, <<"x","/","H","e","l","p","e","r",".","j","s">>, <<"x",".","t","e","s","t",".","t","s","x">>,
      <<"a","/","s","e","s","s","i","o","n","/","y",".","p","y">> }

ClusterInputs == {FileRecord(p, p, 0, <<>>) : p \in ClusterPaths}

\* no response yet
NoResponse == [none |-> TRUE]

InitCluster ==
    /\ files \in UNION {[1..n -> ClusterInputs] : n \in 0..MaxLen}
    /\ clusters = <<>>
    /\ pc = "start"
    /\ tree = <<>>
    /\ request = [t |-> "null"]
    /\ response = NoResponse
    /\ input = <<>>
    /\ pos = 0
    /\ out = <<>>
    /\ outLine = <<>>
    /\ escaped = FALSE

Cluster ==
    /\ pc = "start"
    /\ clusters' = simple_semantic_clustering(files)
    /\ pc' = "clustered"
    /\ UNCHANGED <<tree, request, files, response, input, pos, out, outLine, escaped>>

NextCluster == Cluster

SpecCluster == InitCluster /\ [][NextCluster]_vars

-----------------------------------------------------------------------------
(* JSON values and Python exceptions *)

JNull == [t |-> "null"]
JNum(n) == [t |-> "num", n |-> n]
JStr(s) == [t |-> "str", s |-> s]
JList == [t |-> "list"]
\* a key the object does not hold
JAbsent == [t |-> "absent"]
\* the objects of the protocol, by the keys the server reads
ReqObj(id, method, params) == [t |-> "obj", id |-> id, method |-> method, params |-> params]
ParamsObj(name, arguments) == [t |-> "obj", name |-> name, arguments |-> arguments]
ArgsObj(path) == [t |-> "obj", path |-> path]

\* d.get(key, default) of a dict d
DictGet(d, key, default) == IF d[key].t = "absent" THEN default ELSE d[key]

\* v == 'text'
IsStr(v, text) == v.t = "str" /\ v.s = text

\* type(v).__name__
TypeName(v) ==
    CASE v.t = "null" -> <<"N","o","n","e","T","y","p","e">>
      [] v.t = "num" -> <<"i","n","t">>
      [] v.t = "str" -> <<"s","t","r">>
      [] v.t = "list" -> <<"l","i","s","t">>
      [] v.t = "obj" -> <<"d","i","c","t">>

\* str(v), as an f-string formats it
PyStr(v) ==
    CASE v.t = "null" -> <<"N","o","n","e">>
      [] v.t = "num" -> IntStr(v.n)
      [] v.t = "str" -> v.s
      [] v.t = "list" -> <<"[","]">>

\* str(e) of the AttributeError of v.get
NoGetAttribute(v) == <<"'">> \o TypeName(v) \o <<"'"," ","o","b","j","e","c","t"," ","h","a","s"," ","n","o"," ","a","t","t","r","i","b","u","t","e"," ","'","g","e","t","'">>

\* str(e) of the TypeError of Path(v)
NotAPath(v) == <<"e","x","p","e","c","t","e","d"," ","s","t","r",","," ","b","y","t","e","s"," ","o","r"," ","o","s",".","P","a","t","h","L","i","k","e"," ","o","b","j","e","c","t",","," ","n","o","t"," ">> \o TypeName(v)

-----------------------------------------------------------------------------
(* The filesystem *)

\* one file of the directory: its path below the directory, whether
\* read_text succeeds on it, and the length of its text
Entry(rel, readable, size) == [rel |-> rel, readable |-> readable, size |-> size]

\* the working directory is /w/proj; these arguments denote it
DirArgs == {<<".">>, <<".",".","/","p","r","o","j">>, <<"/","w","/","p","r","o","j">>}

\* Path.rglob yields nothing unless the root is an existing directory
IsDir(repo_path) == repo_path \in DirArgs

Pool ==
    << Entry(<<"R","E","A","D","M","E",".","m","d">>, TRUE, 10),
       Entry(<<"n","o","d","e","_","m","o","d","u","l","e","s","/","m",".","j","s">>, TRUE, 10),
       Entry(<<"d","b","/","q",".","p","y">>, TRUE, 10),
       Entry(<<"a","p","i","/","u",".","p","y">>, FALSE, 10),
       Entry(<<"a","p","i","/","r",".","p","y">>, TRUE, 2500),
       Entry(<<"a","p","i","/","s",".","g","o">>, TRUE, 10),
       Entry(<<"h","o","o","k","s","/","a",".","t","s">>, TRUE, 10),
       Entry(<<"h","o","o","k","s","/","b",".","p","y">>, TRUE, 10),
       Entry(<<"h","o","o","k","s","/","c",".","t","s">>, TRUE, 10),
       Entry(<<"h","o","o","k","s","/","d",".","t","s","x">>, TRUE, 10),
       Entry(<<"h","o","o","k","s","/","e",".","t","s">>, TRUE, 10),
       Entry(<<"h","o","o","k","s","/","f",".","t","s">>, TRUE, 10),
       Entry(<<"h","o","o","k","s","/","g",".","j","s">>, TRUE, 10),
       Entry(<<"h","o","o","k","s","/","h",".","t","s">>, TRUE, 10),
       Entry(<<"h","o","o","k","s","/","i",".","t","s">>, TRUE, 10),
       Entry(<<"h","o","o","k","s","/","j",".","t","s">>, TRUE, 10),
       Entry(<<"h","o","o","k","s","/","k",".","t","s">>, TRUE, 10),
       Entry(<<"h","o","o","k","s","/","l",".","t","s">>, TRUE, 10),
       Entry(<<"d","b","/","w",".","p","y">>, TRUE, 10),
       Entry(<<"l","i","b","/",".","h",".","p","y">>, TRUE, 10),
       Entry(<<"l","i","b","/","b","u","i","l","d","/","o",".","j","s">>, TRUE, 10),
       Entry(<<"a","u","t","h","/","x",".","g","o">>, TRUE, 10),
       Entry(<<"l","i","b","/","_","_","p","y","c","a","c","h","e","_","_","/","c",".","p","y">>, TRUE, 10),
       Entry(<<"d","i","s","t","/","d",".","t","s">>, TRUE, 10) >>

Reverse(s) == [i \in 1..Len(s) |-> s[Len(s) + 1 - i]]

\* the directories of the model: up to MaxFiles consecutive files of Pool,
\* listed by rglob in Pool order or in the opposite order
Trees ==
    LET wins == {SubSeq(Pool, p[1], p[1] + p[2] - 1) :
                    p \in {q \in (1..Len(Pool)) \X (0..MaxFiles) : q[1] + q[2] - 1 <= Len(Pool)}}
    IN  wins \cup {Reverse(w) : w \in wins}

-----------------------------------------------------------------------------
(* scan_code_files *)

Extensions == <<<<".","t","s">>, <<".","t","s","x">>, <<".","j","s">>, <<".","j","s","x">>, <<".","p","y">>, <<".","j","a","v","a">>, <<".","g","o">>, <<".","r","s">>>>

Denylist == {<<"n","o","d","e","_","m","o","d","u","l","e","s">>, <<"d","i","s","t">>, <<"b","u","i","l","d">>, <<"_","_","p","y","c","a","c","h","e","_","_">>}

\* the any(...) of the skip test over file_path.parts
Skipped(parts) ==
    \E i \in DOMAIN parts : StartsWith(parts[i], <<".">>) \/ parts[i] \in Denylist

\* repo.rglob('*' + ext): the files of the directory whose name ends with ext
Rglob(repo_path, fs, ext) ==
    IF IsDir(repo_path)
    THEN SelectSeq(fs, LAMBDA e : EndsWith(Parts(e.rel)[Len(Parts(e.rel))], ext))
    ELSE <<>>

\* the body of the inner loop for one file: the list with the file's record
\* appended, or the list as it was when the file is skipped or unreadable
ScanOne(acc, repo_path, e, ext) ==
    LET file_parts == Parts(repo_path) \o Parts(e.rel)
    IN  IF Skipped(file_parts) THEN acc
        ELSE IF ~e.readable THEN acc
        ELSE Append(acc, FileRecord(PathStr(Parts(e.rel)), PathStr(file_parts), e.size, ext))

\* mutant: the try encloses the loop, so the first failed read ends it
RECURSIVE ScanFilesTryOutside(_, _, _, _)
ScanFilesTryOutside(acc, repo_path, es, ext) ==
    IF es = <<>> THEN acc
    ELSE IF ~Skipped(Parts(repo_path) \o Parts(Head(es).rel)) /\ ~Head(es).readable THEN acc
    ELSE ScanFilesTryOutside(ScanOne(acc, repo_path, Head(es), ext), repo_path, Tail(es), ext)

RECURSIVE ScanFiles(_, _, _, _)
ScanFiles(acc, repo_path, es, ext) ==
    IF es = <<>> THEN acc
    ELSE ScanFiles(ScanOne(acc, repo_path, Head(es), ext), repo_path, Tail(es), ext)

RECURSIVE ScanExts(_, _, _, _)
ScanExts(acc, repo_path, fs, exts) ==
    IF exts = <<>> THEN acc
    ELSE ScanExts(ScanFiles(acc, repo_path, Rglob(repo_path, fs, Head(exts)), Head(exts)),
                  repo_path, fs, Tail(exts))

\* scan_code_files(repo_path) with the default extensions, on the directory fs
scan_code_files(repo_path, fs) == ScanExts(<<>>, repo_path, fs, Extensions)

-----------------------------------------------------------------------------
(* The presenters *)

(* Constants of the program *)

\* files_list[:10]
IndexSample == 10
\* files_list[:5]
OverviewSample == 5
\* 'code': -32601
MethodNotFoundCode == -32601
\* 'code': -32603
InternalErrorCode == -32603

Paths(fs) == [i \in 1..Len(fs) |-> fs[i].path]

\* s[:n]
Take(s, n) == SubSeq(s, 1, Min(n, Len(s)))

\* mutant: the slice is dropped
IndexSliceAll(files_list) == files_list

\* files_list[:10] of the index
IndexSlice(files_list) == Take(files_list, IndexSample)

\* an optional value: None, or a value
None == [some |-> FALSE]
Some(v) == [some |-> TRUE, v |-> v]

\* the summary of one cluster in the index
ClusterSummary(c) ==
    [name |-> c.name,
     file_count |-> Len(c.files),
     files |-> Paths(IndexSlice(c.files)),
     sample_file |-> IF c.files # <<>> THEN Some(c.files[1].path) ELSE None]

\* the result dict of index_repository; a dict is the sequence of its items
IndexResult(fs, cl) ==
    [total_files |-> Len(fs),
     total_clusters |-> Len(cl),
     clusters |-> [k \in 1..Len(cl) |-> ClusterSummary(cl[k])]]

\* json.dumps(v, indent=2): the text that encodes v
JsonDumps(v) == [json |-> v]

\* mutant: an item goes before the items of equal size
InsertByCountBefore(sorted, c) ==
    LET n == Cardinality({i \in DOMAIN sorted : Len(sorted[i].files) > Len(c.files)})
    IN  SubSeq(sorted, 1, n) \o <<c>> \o SubSeq(sorted, n + 1, Len(sorted))

\* where sorted(..., reverse=True) puts c among the items already placed:
\* after every item at least as large, so equal items keep their order
InsertByCount(sorted, c) ==
    LET n == Cardinality({i \in DOMAIN sorted : Len(sorted[i].files) >= Len(c.files)})
    IN  SubSeq(sorted, 1, n) \o <<c>> \o SubSeq(sorted, n + 1, Len(sorted))

RECURSIVE SortLoop(_, _)
SortLoop(cl, sorted) ==
    IF cl = <<>> THEN sorted ELSE SortLoop(Tail(cl), InsertByCount(sorted, Head(cl)))

\* sorted(clusters.items(), key=lambda x: len(x[1]), reverse=True)
SortedByCount(cl) == SortLoop(cl, <<>>)

\* mutant: the trailer counts all the files of the cluster
MoreLineTotal(files_list) ==
    IF Len(files_list) > OverviewSample
    THEN <<<<"-"," ",".",".","."," ","a","n","d"," ">> \o IntStr(Len(files_list)) \o <<" ","m","o","r","e">>>>
    ELSE <<>>

\* the "... and N more" line of a section, when there is one
MoreLine(files_list) ==
    IF Len(files_list) > OverviewSample
    THEN <<<<"-"," ",".",".","."," ","a","n","d"," ">> \o IntStr(Len(files_list) - OverviewSample) \o <<" ","m","o","r","e">>>>
    ELSE <<>>

\* the lines of one cluster's section
Section(c) ==
    << <<"#","#"," ">> \o c.name \o <<" ","(">> \o IntStr(Len(c.files)) \o <<" ","f","i","l","e","s",")">>, <<"F","i","l","e","s",":">> >>
    \o [i \in 1..Min(OverviewSample, Len(c.files)) |-> <<"-"," ">> \o c.files[i].path]
    \o MoreLine(c.files)
    \o << <<>> >>

RECURSIVE Sections(_)
Sections(cl) == IF cl = <<>> THEN <<>> ELSE Section(Head(cl)) \o Sections(Tail(cl))

\* the overview text, as the sequence of its lines
Overview(fs, cl) ==
    << <<"#"," ","S","e","m","a","n","t","i","c"," ","C","o","d","e"," ","A","r","c","h","i","t","e","c","t","u","r","e">>, <<>>,
       <<"*","*","T","o","t","a","l"," ","F","i","l","e","s","*","*",":"," ">> \o IntStr(Len(fs)),
       <<"*","*","C","o","n","c","e","p","t","u","a","l"," ","A","r","e","a","s","*","*",":"," ">> \o IntStr(Len(cl)), <<>> >>
    \o Sections(SortedByCount(cl))

-----------------------------------------------------------------------------
(* handle_request *)

Version == <<"2",".","0">>

Success(request_id, result) == [jsonrpc |-> Version, id |-> request_id, result |-> result]

ErrorResponse(request_id, code, message) ==
    [jsonrpc |-> Version, id |-> request_id, error |-> [code |-> code, message |-> message]]

\* the text content of a tool result
TextContent(text) == [content |-> <<[type |-> <<"t","e","x","t">>, text |-> text]>>]

InitializeResult ==
    [protocolVersion |-> <<"0",".","1",".","0">>,
     capabilities |-> [tools |-> "{}"],
     serverInfo |-> [name |-> <<"s","e","m","a","n","t","i","c","-","n","a","v","i","g","a","t","o","r">>, version |-> <<"0",".","1",".","0">>]]

ToolSchema(name, description, path_description) ==
    [name |-> name,
     description |-> description,
     inputSchema |-> [type |-> <<"o","b","j","e","c","t">>,
                      properties |-> [path |-> [type |-> <<"s","t","r","i","n","g">>,
                                                description |-> path_description]],
                      required |-> <<<<"p","a","t","h">>>>]]

ToolsListResult ==
    [tools |-> << ToolSchema(<<"i","n","d","e","x","_","r","e","p","o","s","i","t","o","r","y">>,
                     <<"C","r","e","a","t","e"," ","a"," ","s","e","m","a","n","t","i","c"," ","i","n","d","e","x"," ","o","f"," ","a"," ","c","o","d","e"," ","r","e","p","o","s","i","t","o","r","y"," ","(","1","0","0","%"," ","l","o","c","a","l",","," ","n","o"," ","A","P","I"," ","k","e","y","s"," ","n","e","e","d","e","d",")">>,
                     <<"P","a","t","h"," ","t","o"," ","t","h","e"," ","r","e","p","o","s","i","t","o","r","y"," ","t","o"," ","i","n","d","e","x">>),
                  ToolSchema(<<"g","e","t","_","c","l","u","s","t","e","r","_","o","v","e","r","v","i","e","w">>,
                     <<"G","e","t"," ","a"," ","s","e","m","a","n","t","i","c"," ","o","v","e","r","v","i","e","w"," ","o","f"," ","t","h","e"," ","c","o","d","e","b","a","s","e"," ","a","r","c","h","i","t","e","c","t","u","r","e">>,
                     <<"P","a","t","h"," ","t","o"," ","t","h","e"," ","r","e","p","o","s","i","t","o","r","y">>) >>]

\* what a call of handle_request leaves: the response it returns, or the
\* exception that leaves it, and the lists the tool built
Returned(resp, fs, cl) ==
    [raised |-> FALSE, response |-> resp, files |-> fs, clusters |-> cl]
Raised(message) ==
    [raised |-> TRUE, exc |-> message, files |-> <<>>, clusters |-> <<>>]

\* mutant: the unknown method is reported with the internal-error code
MethodNotFoundWrongCode(request_id, method) ==
    Returned(ErrorResponse(request_id, InternalErrorCode,
                           <<"M","e","t","h","o","d"," ","n","o","t"," ","f","o","u","n","d",":"," ">> \o PyStr(method)), <<>>, <<>>)

\* the return after the if/elif chain
MethodNotFound(request_id, method) ==
    Returned(ErrorResponse(request_id, MethodNotFoundCode,
                           <<"M","e","t","h","o","d"," ","n","o","t"," ","f","o","u","n","d",":"," ">> \o PyStr(method)), <<>>, <<>>)

\* the except branch
InternalError(request_id, message) ==
    Returned(ErrorResponse(request_id, InternalErrorCode,
                           <<"I","n","t","e","r","n","a","l"," ","e","r","r","o","r",":"," ">> \o message), <<>>, <<>>)

\* the two tools, from tool_args on
CallTool(request_id, tool_name, tool_args, fs) ==
    IF tool_args.t # "obj" THEN InternalError(request_id, NoGetAttribute(tool_args))
    ELSE
    LET repo_path == DictGet(tool_args, "path", JStr(<<".">>))
    IN  IF repo_path.t # "str" THEN InternalError(request_id, NotAPath(repo_path))
        ELSE
        LET scanned == scan_code_files(repo_path.s, fs)
            cl == simple_semantic_clustering(scanned)
        IN  IF IsStr(tool_name, <<"i","n","d","e","x","_","r","e","p","o","s","i","t","o","r","y">>)
            THEN Returned(Success(request_id,
                                  TextContent(JsonDumps(IndexResult(scanned, cl)))),
                          scanned, cl)
            ELSE Returned(Success(request_id, TextContent(Overview(scanned, cl))),
                          scanned, cl)

handle_request(req, fs) ==
    IF req.t # "obj" THEN Raised(NoGetAttribute(req))
    ELSE
    LET method == DictGet(req, "method", JNull)
        params == DictGet(req, "params", ParamsObj(JAbsent, JAbsent))
        request_id == DictGet(req, "id", JNull)
    IN  IF IsStr(method, <<"i","n","i","t","i","a","l","i","z","e">>)
            THEN Returned(Success(request_id, InitializeResult), <<>>, <<>>)
        ELSE IF IsStr(method, <<"t","o","o","l","s","/","l","i","s","t">>)
            THEN Returned(Success(request_id, ToolsListResult), <<>>, <<>>)
        ELSE IF IsStr(method, <<"t","o","o","l","s","/","c","a","l","l">>)
            THEN IF params.t # "obj" THEN InternalError(request_id, NoGetAttribute(params))
                 ELSE
                 LET tool_name == DictGet(params, "name", JNull)
                     tool_args == DictGet(params, "arguments", ArgsObj(JAbsent))
                 IN  IF \/ IsStr(tool_name, <<"i","n","d","e","x","_","r","e","p","o","s","i","t","o","r","y">>)
                        \/ IsStr(tool_name, <<"g","e","t","_","c","l","u","s","t","e","r","_","o","v","e","r","v","i","e","w">>)
                     THEN CallTool(request_id, tool_name, tool_args, fs)
                     ELSE MethodNotFound(request_id, method)
        ELSE MethodNotFound(request_id, method)

-----------------------------------------------------------------------------
(* SpecCall: handle_request applied to one decoded request *)

ToolNames == {<<"i","n","d","e","x","_","r","e","p","o","s","i","t","o","r","y">>, <<"g","e","t","_","c","l","u","s","t","e","r","_","o","v","e","r","v","i","e","w">>}

ToolCall(id, name, arguments) == ReqObj(id, JStr(<<"t","o","o","l","s","/","c","a","l","l">>), ParamsObj(name, arguments))

\* the arguments that denote the directory, a missing path and a regular file
CallRoots == DirArgs \cup {<<"/","w","/","m","i","s","s","i","n","g">>, <<"/","w","/","n","o","t","e","s",".","p","y">>}

\* well-formed calls of the two tools
CallRequests ==
    {ToolCall(JNum(1), JStr(n), ArgsObj(JStr(r))) : n \in ToolNames, r \in CallRoots}
    \cup {ToolCall(JNum(1), JStr(n), ArgsObj(JAbsent)) : n \in ToolNames}

\* every other shape of decoded request
OtherRequests ==
    {JList, JNum(5), JNull, JStr(<<"h","i">>)}
    \cup {ReqObj(i, m, p) :
            i \in {JNum(2), JStr(<<"a">>), JNull, JAbsent},
            m \in {JStr(<<"i","n","i","t","i","a","l","i","z","e">>), JStr(<<"t","o","o","l","s","/","l","i","s","t">>), JStr(<<"p","i","n","g">>),
                   JStr(<<"I","n","i","t","i","a","l","i","z","e">>), JNum(7), JNull, JAbsent},
            p \in {JAbsent, JList}}
    \cup {ToolCall(i, n, a) :
            i \in {JNum(2), JAbsent},
            n \in {JStr(<<"i","n","d","e","x","_","r","e","p","o","s","i","t","o","r","y">>), JStr(<<"g","e","t","_","c","l","u","s","t","e","r","_","o","v","e","r","v","i","e","w">>),
                   JStr(<<"b","o","g","u","s">>), JNum(3), JNull, JAbsent},
            a \in {JAbsent, JNull, JNum(5), JList, ArgsObj(JNum(5)), ArgsObj(JNull),
                   ArgsObj(JStr(<<".">>))}}
    \cup {ReqObj(JNum(2), JStr(<<"t","o","o","l","s","/","c","a","l","l">>), p) : p \in {JAbsent, JNull, JList, JNum(5)}}

\* the directories the other requests are tried on
SmallTrees == {<<>>, SubSeq(Pool, 3, 8)}

InitCall ==
    /\ \/ tree \in Trees /\ request \in CallRequests
       \/ tree \in SmallTrees /\ request \in OtherRequests
    /\ files = <<>>
    /\ clusters = <<>>
    /\ response = NoResponse
    /\ escaped = FALSE
    /\ pc = "received"
    /\ input = <<>>
    /\ pos = 0
    /\ out = <<>>
    /\ outLine = <<>>

HandleCall ==
    /\ pc = "received"
    /\ \E r \in {handle_request(request, tree)} :
           /\ response' = IF r.raised THEN NoResponse ELSE r.response
           /\ escaped' = r.raised
           /\ files' = r.files
           /\ clusters' = r.clusters
    /\ pc' = "responded"
    /\ UNCHANGED <<tree, request, input, pos, out, outLine>>

NextCall == HandleCall

SpecCall == InitCall /\ [][NextCall]_vars

-----------------------------------------------------------------------------
(* Spec: main, reading standard input line by line *)

\* a line that json.loads rejects, and the line that encodes the value v
BadLine(text) == [valid |-> FALSE, text |-> text]
JsonLine(v) == [valid |-> TRUE, value |-> v]

Lines ==
    { BadLine(<<"{","o","o","p","s">>),
      BadLine(<<>>),
      JsonLine(JList),
      JsonLine(ReqObj(JNum(1), JStr(<<"i","n","i","t","i","a","l","i","z","e">>), JAbsent)),
      JsonLine(ReqObj(JStr(<<"a">>), JStr(<<"p","i","n","g">>), JAbsent)),
      JsonLine(ReqObj(JAbsent, JStr(<<"t","o","o","l","s","/","c","a","l","l">>), JNull)),
      JsonLine(ToolCall(JNum(3), JStr(<<"g","e","t","_","c","l","u","s","t","e","r","_","o","v","e","r","v","i","e","w">>), ArgsObj(JStr(<<".">>)))),
      JsonLine(ToolCall(JNum(4), JStr(<<"i","n","d","e","x","_","r","e","p","o","s","i","t","o","r","y">>), ArgsObj(JNum(5)))) }

\* one pass of the loop body: what is printed, and whether the loop goes on
LoopBody(printed, alive) == [printed |-> printed, alive |-> alive]

\* mutant: the JSONDecodeError is not caught and ends the loop
main_step_uncaught(line, fs) ==
    IF ~line.valid THEN LoopBody(<<>>, FALSE)
    ELSE LET r == handle_request(line.value, fs)
         IN  IF r.raised THEN LoopBody(<<>>, TRUE)
             ELSE LoopBody(<<r.response>>, TRUE)

\* the body of the for loop of main for one line
main_step(line, fs) ==
    IF ~line.valid THEN LoopBody(<<>>, TRUE)
    ELSE LET r == handle_request(line.value, fs)
         IN  IF r.raised THEN LoopBody(<<>>, TRUE)
             ELSE LoopBody(<<r.response>>, TRUE)

Init ==
    /\ input \in UNION {[1..n -> Lines] : n \in 0..MaxLines}
    /\ tree \in {SubSeq(Pool, 3, 8)}
    /\ pos = 0
    /\ out = <<>>
    /\ outLine = <<>>
    /\ escaped = FALSE
    /\ pc = "read"
    /\ request = JNull
    /\ response = NoResponse
    /\ files = <<>>
    /\ clusters = <<>>

\* for line in sys.stdin: the next line is taken
ReadLine ==
    /\ pc = "read"
    /\ pos < Len(input)
    /\ pos' = pos + 1
    /\ pc' = "handle"
    /\ UNCHANGED <<tree, request, files, clusters, response, input, out, outLine, escaped>>

\* the loop body for the line taken
Dispatch ==
    /\ pc = "handle"
    /\ \E step \in {main_step(input[pos], tree)} :
           /\ out' = out \o step.printed
           /\ outLine' = outLine \o [i \in 1..Len(step.printed) |-> pos]
           /\ pc' = IF step.alive THEN "read" ELSE "crashed"
    /\ UNCHANGED <<tree, request, files, clusters, response, input, pos, escaped>>

\* standard input is exhausted: the loop and main end
EndOfInput ==
    /\ pc = "read"
    /\ pos = Len(input)
    /\ pc' = "done"
    /\ UNCHANGED <<tree, request, files, clusters, response, input, pos, out, outLine, escaped>>

Next == ReadLine \/ Dispatch \/ EndOfInput

Spec == Init /\ [][Next]_vars

-----------------------------------------------------------------------------
(* Helpers of the properties *)

RECURSIVE SumSeq(_)
SumSeq(s) == IF s = <<>> THEN 0 ELSE Head(s) + SumSeq(Tail(s))

Count(s, x) == Cardinality({i \in DOMAIN s : s[i] = x})

\* the names of the clusters of cl that hold the record f
LabelsOf(cl, f) == {cl[k].name : k \in {j \in DOMAIN cl : InList(f, cl[j].files)}}

-----------------------------------------------------------------------------
(* C1 *)

\* C1: the map simple_semantic_clustering returns is a partition of its input
\* that keeps input order: cluster names are distinct, no cluster is empty,
\* the sizes sum to the input length, every input record is in exactly one
\* cluster, as often as it is in the input, each cluster is the subsequence
\* of the input of the records that received its label, and the empty input
\* gives the empty map.
C1_Partition ==
    pc = "clustered" =>
        /\ \A j, k \in DOMAIN clusters : clusters[j].name = clusters[k].name => j = k
        /\ \A k \in DOMAIN clusters : clusters[k].files # <<>>
        /\ SumSeq([k \in DOMAIN clusters |-> Len(clusters[k].files)]) = Len(files)
        /\ \A i \in DOMAIN files :
            \E k \in DOMAIN clusters :
                /\ Count(clusters[k].files, files[i]) = Count(files, files[i])
                /\ \A j \in DOMAIN clusters : j # k => ~InList(files[i], clusters[j].files)
        /\ \A k \in DOMAIN clusters :
            clusters[k].files =
                SelectSeq(files, LAMBDA f : ClusterKey(f.path) = clusters[k].name)
        /\ (files = <<>> => clusters = <<>>)

\* two different records that receive the same label, clustered in input order
C1_Witness ==
    /\ pc = "clustered"
    /\ Len(files) = 2
    /\ files[1] # files[2]
    /\ Len(clusters) = 1
    /\ clusters[1].name = <<"U","I"," ","C","o","m","p","o","n","e","n","t","s">>
    /\ clusters[1].files = files

-----------------------------------------------------------------------------
(* C2 *)

\* the documented predicate table, rule k against the lower-cased path low
\* and the component sequence comps
RuleHolds(k, low, comps) ==
    CASE k = 1 -> Contains(low, <<"c","o","m","p","o","n","e","n","t">>) \/ InList(<<"c","o","m","p","o","n","e","n","t","s">>, comps)
      [] k = 2 -> Contains(low, <<"h","o","o","k">>) \/ InList(<<"h","o","o","k","s">>, comps)
      [] k = 3 -> Contains(low, <<"s","e","r","v","i","c","e">>) \/ InList(<<"s","e","r","v","i","c","e","s">>, comps)
      [] k = 4 -> Contains(low, <<"u","t","i","l">>) \/ Contains(low, <<"h","e","l","p","e","r">>) \/ InList(<<"u","t","i","l","s">>, comps)
      [] k = 5 -> Contains(low, <<"t","y","p","e">>) \/ Contains(low, <<"i","n","t","e","r","f","a","c","e">>) \/ InList(<<"t","y","p","e","s">>, comps)
      [] k = 6 -> Contains(low, <<"t","e","s","t">>) \/ EndsWith(low, <<".","t","e","s","t",".","t","s">>) \/ EndsWith(low, <<".","t","e","s","t",".","t","s","x">>)
      [] k = 7 -> Contains(low, <<"c","o","n","f","i","g">>) \/ Contains(low, <<"s","e","t","u","p">>)
      [] k = 8 -> \E c \in {<<"a","u","t","h">>, <<"l","o","g","i","n">>, <<"s","e","s","s","i","o","n">>} : InList(c, comps)
      [] k = 9 -> \E c \in {<<"d","b">>, <<"d","a","t","a","b","a","s","e">>, <<"m","o","d","e","l">>, <<"m","o","d","e","l","s">>} : InList(c, comps)
      [] k = 10 -> \E c \in {<<"a","p","i">>, <<"r","o","u","t","e">>, <<"r","o","u","t","e","s">>, <<"e","n","d","p","o","i","n","t">>} : InList(c, comps)

RuleLabel(k) ==
    CASE k = 1 -> <<"U","I"," ","C","o","m","p","o","n","e","n","t","s">>
      [] k = 2 -> <<"R","e","a","c","t"," ","H","o","o","k","s">>
      [] k = 3 -> <<"S","e","r","v","i","c","e","s"," ","&"," ","A","P","I","s">>
      [] k = 4 -> <<"U","t","i","l","i","t","i","e","s"," ","&"," ","H","e","l","p","e","r","s">>
      [] k = 5 -> <<"T","y","p","e"," ","D","e","f","i","n","i","t","i","o","n","s">>
      [] k = 6 -> <<"T","e","s","t","s">>
      [] k = 7 -> <<"C","o","n","f","i","g","u","r","a","t","i","o","n">>
      [] k = 8 -> <<"A","u","t","h","e","n","t","i","c","a","t","i","o","n">>
      [] k = 9 -> <<"D","a","t","a","b","a","s","e"," ","&"," ","M","o","d","e","l","s">>
      [] k = 10 -> <<"A","P","I"," ","R","o","u","t","e","s">>

Meaningful(comps) == SelectSeq(comps, LAMBDA c : c \notin {<<".">>, <<".",".">>, <<"s","r","c">>})

\* the label of the first rule that holds, else the fallback label
DocLabel(low, comps) ==
    LET hits == {k \in 1..10 : RuleHolds(k, low, comps)}
    IN  IF hits # {} THEN RuleLabel(CHOOSE k \in hits : \A h \in hits : k <= h)
        ELSE IF Meaningful(comps) # <<>> THEN Capitalize(Meaningful(comps)[1])
        ELSE <<"O","t","h","e","r">>

-----------------------------------------------------------------------------
(* Helpers of the properties about one handled request *)

\* the request is a call of the tool `name` with a string path or no path
IsCallOf(req, name) == req \in CallRequests /\ req.params.name.s = name

\* the root such a call scans
RootOf(req) == DictGet(req.params.arguments, "path", JStr(<<".">>)).s

\* the text of a successful tool response
TextOf(resp) == resp.result.content[1].text

IsSuccess(resp) == "result" \in DOMAIN resp /\ "error" \notin DOMAIN resp

IsError(resp) == "error" \in DOMAIN resp /\ "result" \notin DOMAIN resp

\* the id a response must carry: the request's, null when it has none
IdOf(req) == IF req.id.t = "absent" THEN JNull ELSE req.id

\* the file name ends with a default extension
AllowedName(rel) == \E i \in DOMAIN Extensions : EndsWith(rel, Extensions[i])

\* a component of the path below the root is hidden or denylisted
ExcludedBelowRoot(rel) ==
    \E c \in Range(Parts(rel)) :
        c[1] = "." \/ c \in {<<"n","o","d","e","_","m","o","d","u","l","e","s">>, <<"d","i","s","t">>, <<"b","u","i","l","d">>, <<"_","_","p","y","c","a","c","h","e","_","_">>}

\* how often the file of the directory occurs in the clusters
Occurrences(cl, rel) ==
    SumSeq([k \in DOMAIN cl |-> Count(Paths(cl[k].files), rel)])

\* the number of clusters the file of the directory occurs in
ClustersHolding(cl, rel) ==
    Cardinality({k \in DOMAIN cl : InList(rel, Paths(cl[k].files))})

-----------------------------------------------------------------------------
(* C3 *)

\* C3: after a full index or overview cycle over any root that is a
\* directory, a (readable) file of the directory is in exactly one cluster,
\* exactly once, if and only if its name ends with a default extension and no
\* component of its path below the root is hidden or denylisted; otherwise
\* it is in no cluster.
C3_IncludedIffEligibleBelowRoot ==
    (pc = "responded" /\ request \in CallRequests /\ IsDir(RootOf(request))) =>
        \A i \in DOMAIN tree :
            tree[i].readable =>
                IF AllowedName(tree[i].rel) /\ ~ExcludedBelowRoot(tree[i].rel)
                THEN /\ Occurrences(clusters, tree[i].rel) = 1
                     /\ ClustersHolding(clusters, tree[i].rel) = 1
                ELSE Occurrences(clusters, tree[i].rel) = 0

-----------------------------------------------------------------------------
(* C4 *)

\* C4: in every index_repository result, cluster by cluster, the sample paths
\* are the first min(10, file_count) paths of the cluster in order, the
\* sample_file is the cluster's first path and not null, total_clusters is the
\* number of cluster entries, and the file_count values sum to total_files.
C4_IndexSummary ==
    (pc = "responded" /\ IsCallOf(request, <<"i","n","d","e","x","_","r","e","p","o","s","i","t","o","r","y">>)) =>
        /\ IsSuccess(response)
        /\ LET res == TextOf(response).json
           IN  /\ res.total_clusters = Len(res.clusters)
               /\ Len(res.clusters) = Len(clusters)
               /\ SumSeq([k \in DOMAIN res.clusters |-> res.clusters[k].file_count])
                    = res.total_files
               /\ res.total_files = Len(files)
               /\ \A k \in DOMAIN res.clusters :
                    LET s == res.clusters[k]
                        paths == Paths(clusters[k].files)
                    IN  /\ s.name = clusters[k].name
                        /\ s.file_count = Len(paths)
                        /\ Len(s.files) = Min(10, s.file_count)
                        /\ s.files = SubSeq(paths, 1, Len(s.files))
                        /\ s.sample_file.some
                        /\ s.sample_file.v = paths[1]

\* an index with a cluster of more than 10 files beside a smaller cluster
C4_Witness ==
    /\ pc = "responded"
    /\ IsCallOf(request, <<"i","n","d","e","x","_","r","e","p","o","s","i","t","o","r","y">>)
    /\ IsSuccess(response)
    /\ \E j, k \in DOMAIN TextOf(response).json.clusters :
        /\ TextOf(response).json.clusters[j].file_count > 10
        /\ Len(TextOf(response).json.clusters[j].files) = 10
        /\ TextOf(response).json.clusters[k].file_count = 1

-----------------------------------------------------------------------------
(* C5 and C10: the sections of the overview text *)

IsHeading(line) == StartsWith(line, <<"#","#"," ">>)

IsTrailer(line) == StartsWith(line, <<"-"," ",".",".","."," ","a","n","d"," ">>)

IsListed(line) == StartsWith(line, <<"-"," ">>) /\ ~IsTrailer(line)

\* the positions of the section headings in the text
Headings(text) == {i \in DOMAIN text : IsHeading(text[i])}

\* the positions of the lines of the section whose heading is at h
SectionBody(text, h) ==
    {i \in DOMAIN text : i > h /\ \A g \in Headings(text) : g > h => i < g}

\* the lines of the text at the positions ps, in order
LinesAt(text, ps) == SelectSeq([i \in DOMAIN text |-> IF i \in ps THEN <<text[i]>> ELSE <<>>],
                               LAMBDA x : x # <<>>)

\* the heading line that shows the cluster's name and file count
HeadingOf(c) == <<"#","#"," ">> \o c.name \o <<" ","(">> \o IntStr(Len(c.files)) \o <<" ","f","i","l","e","s",")">>

\* C5: in every overview text each section is the section of a cluster,
\* lists the first min(5, size) paths of that cluster, and carries the
\* "... and N more" trailer exactly when the cluster has more than 5 files,
\* with N the size minus 5.
C5_OverviewSections ==
    (pc = "responded" /\ IsCallOf(request, <<"g","e","t","_","c","l","u","s","t","e","r","_","o","v","e","r","v","i","e","w">>)) =>
        /\ IsSuccess(response)
        /\ LET text == TextOf(response)
           IN  \A h \in Headings(text) :
                 \E k \in DOMAIN clusters :
                    LET c == clusters[k]
                        size == Len(c.files)
                        body == SectionBody(text, h)
                        listed == LinesAt(text, {i \in body : IsListed(text[i])})
                        trailers == LinesAt(text, {i \in body : IsTrailer(text[i])})
                    IN  /\ text[h] = HeadingOf(c)
                        /\ Len(listed) = Min(5, size)
                        /\ \A i \in DOMAIN listed : listed[i] = <<<<"-"," ">> \o c.files[i].path>>
                        /\ (size > 5) = (trailers # <<>>)
                        /\ size > 5 =>
                             trailers = << <<<<"-"," ",".",".","."," ","a","n","d"," ">> \o IntStr(size - 5) \o <<" ","m","o","r","e">>>> >>

\* an overview with a section of more than 5 files and a section of at most 5
C5_Witness ==
    /\ pc = "responded"
    /\ IsCallOf(request, <<"g","e","t","_","c","l","u","s","t","e","r","_","o","v","e","r","v","i","e","w">>)
    /\ IsSuccess(response)
    /\ \E j, k \in DOMAIN clusters : Len(clusters[j].files) > 5 /\ Len(clusters[k].files) <= 5
    /\ \E i \in DOMAIN TextOf(response) : IsTrailer(TextOf(response)[i])

\* C10: in every overview text there is exactly one section per cluster, the
\* sections are in non-increasing order of file count, and sections of equal
\* file count are in the order in which clustering first produced their labels.
C10_OverviewOrder ==
    (pc = "responded" /\ IsCallOf(request, <<"g","e","t","_","c","l","u","s","t","e","r","_","o","v","e","r","v","i","e","w">>)) =>
        /\ IsSuccess(response)
        /\ LET text == TextOf(response)
               heads == LinesAt(text, Headings(text))
               \* the clusters whose heading is the line
               of(line) == {k \in DOMAIN clusters : line = <<HeadingOf(clusters[k])>>}
           IN  /\ Len(heads) = Len(clusters)
               /\ \A k \in DOMAIN clusters :
                    Cardinality({i \in DOMAIN heads : heads[i] = <<HeadingOf(clusters[k])>>}) = 1
               /\ \A i, j \in DOMAIN heads :
                    i < j =>
                        \A a \in of(heads[i]), b \in of(heads[j]) :
                            /\ Len(clusters[a].files) >= Len(clusters[b].files)
                            /\ Len(clusters[a].files) = Len(clusters[b].files) => a < b

\* an overview in which a later-produced larger cluster comes first and two
\* clusters of equal size keep the order of their first files
C10_Witness ==
    /\ pc = "responded"
    /\ IsCallOf(request, <<"g","e","t","_","c","l","u","s","t","e","r","_","o","v","e","r","v","i","e","w">>)
    /\ IsSuccess(response)
    /\ Len(clusters) >= 3
    /\ \E a, b \in DOMAIN clusters :
        a < b /\ Len(clusters[a].files) = Len(clusters[b].files)
    /\ \E a, b \in DOMAIN clusters :
        a < b /\ Len(clusters[a].files) < Len(clusters[b].files)

-----------------------------------------------------------------------------
(* C9 *)

\* the directory with every file readable
AllReadable(fs) == [i \in 1..Len(fs) |-> Entry(fs[i].rel, TRUE, fs[i].size)]

\* the file of the directory at the path is readable
ReadableAt(fs, rel) == \E i \in DOMAIN fs : PathStr(Parts(fs[i].rel)) = rel /\ fs[i].readable

\* the overview of nothing: the heading block alone
EmptyOverview ==
    << <<"#"," ","S","e","m","a","n","t","i","c"," ","C","o","d","e"," ","A","r","c","h","i","t","e","c","t","u","r","e">>, <<>>, <<"*","*","T","o","t","a","l"," ","F","i","l","e","s","*","*",":"," ","0">>,
       <<"*","*","C","o","n","c","e","p","t","u","a","l"," ","A","r","e","a","s","*","*",":"," ","0">>, <<>> >>

-----------------------------------------------------------------------------
(* C6 and C7 *)

KnownMethods == {<<"i","n","i","t","i","a","l","i","z","e">>, <<"t","o","o","l","s","/","l","i","s","t">>, <<"t","o","o","l","s","/","c","a","l","l">>}

\* the method of the request object is none of the three known methods
UnknownMethod(req) ==
    LET m == DictGet(req, "method", JNull)
    IN  ~(m.t = "str" /\ m.s \in KnownMethods)

\* a tool invocation whose params hold a tool name, or none, that is not a tool
UnknownTool(req) ==
    /\ IsStr(DictGet(req, "method", JNull), <<"t","o","o","l","s","/","c","a","l","l">>)
    /\ req.params.t \in {"absent", "obj"}
    /\ LET n == IF req.params.t = "absent" THEN JNull ELSE DictGet(req.params, "name", JNull)
       IN  ~(n.t = "str" /\ n.s \in ToolNames)

\* C6: a request object with an unknown method, and a tool invocation with
\* an unknown tool name, is answered with an error envelope carrying the
\* request's id, the code -32601 and no result; for an unknown method the
\* message contains the method name.
C6_MethodNotFound ==
    (pc = "responded" /\ request.t = "obj" /\ (UnknownMethod(request) \/ UnknownTool(request))) =>
        /\ ~escaped
        /\ IsError(response)
        /\ response.id = IdOf(request)
        /\ response.error.code = -32601
        /\ (UnknownMethod(request) /\ request.method.t = "str") =>
                Contains(response.error.message, request.method.s)

\* a tools/call of an unknown tool with arguments that are no object
C6_Witness ==
    /\ pc = "responded"
    /\ request = ToolCall(JNum(2), JStr(<<"b","o","g","u","s">>), JNum(5))
    /\ IsError(response)
    /\ response.error.code = -32601

\* dispatching the request raises: it is no object, or it calls tools/call
\* with params that are no object, or a tool with arguments that are no
\* object or with a path that is no string
DispatchRaises(req) ==
    \/ req.t # "obj"
    \/ /\ IsStr(DictGet(req, "method", JNull), <<"t","o","o","l","s","/","c","a","l","l">>)
       /\ \/ req.params.t \notin {"absent", "obj"}
          \/ /\ req.params.t = "obj"
             /\ req.params.name.t = "str" /\ req.params.name.s \in ToolNames
             /\ \/ req.params.arguments.t \notin {"absent", "obj"}
                \/ /\ req.params.arguments.t = "obj"
                   /\ req.params.arguments.path.t \notin {"absent", "str"}

\* str(e) of the exception the dispatch of a request object raises
RaisedMessage(req) ==
    IF req.params.t \notin {"absent", "obj"} THEN NoGetAttribute(req.params)
    ELSE IF req.params.arguments.t \notin {"absent", "obj"}
        THEN NoGetAttribute(req.params.arguments)
    ELSE NotAPath(req.params.arguments.path)

\* C7: no exception leaves handle_request; a dispatch that raises is
\* answered with an error envelope carrying the request's id, the code
\* -32603 and a message that carries the exception's message.
C7_NoExceptionEscapes ==
    pc = "responded" =>
        /\ ~escaped
        /\ DispatchRaises(request) =>
            /\ IsError(response)
            /\ response.error.code = -32603
            /\ request.t = "obj" =>
                /\ response.id = IdOf(request)
                /\ EndsWith(response.error.message, RaisedMessage(request))

-----------------------------------------------------------------------------
(* C8 *)

\* the loop body has run to its end for input line i
Handled(i) == i < pos \/ (i = pos /\ pc # "handle")

\* the positions in the output of the lines printed for input line i
PrintedFor(i) == {k \in DOMAIN out : outLine[k] = i}

\* C8: main handles the lines one at a time and in order until input ends:
\* nothing is printed for a line before its turn, a handled line that decodes
\* to a request object has exactly one response line, with the request's id
\* and exactly one of result and error, printed before the next line is
\* taken, a handled line that is not valid JSON has none, and whatever the
\* lines are the loop is never left before the last line: it ends only at
\* the end of input, and until then it has a line to take or to handle.
C8_OneResponsePerRequest ==
    /\ pc \in {"read", "handle", "done"}
    /\ pc = "done" => pos = Len(input)
    /\ pos \in 0..Len(input)
    /\ pc = "handle" => pos \in DOMAIN input
    /\ Len(outLine) = Len(out)
    /\ \A j, k \in DOMAIN outLine : j < k => outLine[j] < outLine[k]
    /\ \A i \in DOMAIN input :
        /\ ~Handled(i) => PrintedFor(i) = {}
        /\ (Handled(i) /\ ~input[i].valid) => PrintedFor(i) = {}
        /\ (Handled(i) /\ input[i].valid /\ input[i].value.t = "obj") =>
            /\ Cardinality(PrintedFor(i)) = 1
            /\ \A k \in PrintedFor(i) :
                /\ out[k].id = IdOf(input[i].value)
                /\ IsSuccess(out[k]) \/ IsError(out[k])

\* input ended after a line that is not JSON, a request answered with an
\* error and a request answered with a result, in this order
C8_Witness ==
    /\ pc = "done"
    /\ Len(input) = 3
    /\ ~input[1].valid
    /\ input[2].valid /\ input[2].value.t = "obj"
    /\ input[3].valid /\ input[3].value.t = "obj"
    /\ outLine = <<2, 3>>
    /\ IsError(out[1])
    /\ IsSuccess(out[2])

=============================================================================
